---- MODULE Spec2Model ----
(***************************************************************************)
(* Receipt uploader: the intake flow of Home.processAndUploadFile in its   *)
(* three variants (src/src/app/page.tsx, src/unnamed/part_000,             *)
(* src/unnamed/part_001).  One action is the code one attempt runs between *)
(* two suspension points (awaits); the external routines (HEIC decoder,    *)
(* PDF renderer, image load, canvas encode, file reader, fetch) resolve    *)
(* with a nondeterministic outcome.                                        *)
(***************************************************************************)
EXTENDS Integers, Sequences, FiniteSets, TLC

VARIABLES
    variant,        \* which source file's Home component is running
    webhookUrl,     \* process.env.NEXT_PUBLIC_WEBHOOK_URL: <<>> (absent) or <<url>>
    fileStatus,     \* useState<FileStatus>
    errorMessage,   \* useState<string>
    previewFile,    \* useState<PreviewFile | null>: <<>> or <<[file, previewUrl]>>
    uploadHistory,  \* useState<UploadedFile[]>
    attempts,       \* the calls of processAndUploadFile so far, in start order
    nSuccess        \* number of setFileStatus('success') calls so far

vars == <<variant, webhookUrl, fileStatus, errorMessage, previewFile,
          uploadHistory, attempts, nSuccess>>

(***************************************************************************)
(* Bounds.                                                                 *)
(***************************************************************************)
MaxAttempts == 3
MaxUploads == 2

(***************************************************************************)
(* Strings the code inspects are sequences of one-character strings.       *)
(***************************************************************************)
Upper == <<"A","B","C","D","E","F","G","H","I","J","K","L","M",
           "N","O","P","Q","R","S","T","U","V","W","X","Y","Z">>
Lower == <<"a","b","c","d","e","f","g","h","i","j","k","l","m",
           "n","o","p","q","r","s","t","u","v","w","x","y","z">>

LowerChar(c) ==
    IF \E i \in 1..Len(Upper) : Upper[i] = c
    THEN Lower[CHOOSE i \in 1..Len(Upper) : Upper[i] = c]
    ELSE c

\* String.prototype.toLowerCase
ToLowerCase(s) == [i \in 1..Len(s) |-> LowerChar(s[i])]

\* String.prototype.endsWith
EndsWith(s, suffix) ==
    /\ Len(s) >= Len(suffix)
    /\ SubSeq(s, Len(s) - Len(suffix) + 1, Len(s)) = suffix

\* String.prototype.startsWith
StartsWith(s, prefix) ==
    /\ Len(s) >= Len(prefix)
    /\ SubSeq(s, 1, Len(prefix)) = prefix

DotHeic == <<".","h","e","i","c">>
DotHeif == <<".","h","e","i","f">>
DotPdf  == <<".","p","d","f">>
DotJpg  == <<".","j","p","g">>

ImagePrefix    == <<"i","m","a","g","e","/">>
ImageJpeg      == ImagePrefix \o <<"j","p","e","g">>
ImagePng       == ImagePrefix \o <<"p","n","g">>
ImageWebp      == ImagePrefix \o <<"w","e","b","p">>
ImageHeic      == ImagePrefix \o <<"h","e","i","c">>
ApplicationPdf == <<"a","p","p","l","i","c","a","t","i","o","n","/","p","d","f">>
TextPlain      == <<"t","e","x","t","/","p","l","a","i","n">>
NoType         == <<>>

\* name.replace(/\.(heic|heif)$/i, '.jpg')
ReplaceHeicExt(name) ==
    IF EndsWith(ToLowerCase(name), DotHeic) \/ EndsWith(ToLowerCase(name), DotHeif)
    THEN SubSeq(name, 1, Len(name) - 5) \o DotJpg
    ELSE name

\* name.replace(/\.pdf$/i, '.jpg')
ReplacePdfExt(name) ==
    IF EndsWith(ToLowerCase(name), DotPdf)
    THEN SubSeq(name, 1, Len(name) - 4) \o DotJpg
    ELSE name

\* name.replace(/\.[^.]+$/, '.jpg'): the last dot, when at least one character
\* follows it, and everything after it
ReplaceAnyExt(name) ==
    LET dots == {i \in 1..Len(name) : name[i] = "."}
        last == CHOOSE i \in dots : \A j \in dots : j <= i
    IN  IF dots # {} /\ last < Len(name)
        THEN SubSeq(name, 1, last - 1) \o DotJpg
        ELSE name

(***************************************************************************)
(* Files.  A File is [name, type, size, data]; data names the bytes.       *)
(***************************************************************************)
MAX_FILE_SIZE == 10 * 1024 * 1024

File(n, t, s, d) == [name |-> n, type |-> t, size |-> s, data |-> d]

\* function isImageFile
isImageFile(file) == StartsWith(file.type, ImagePrefix)

\* function isPdfFile
isPdfFile(file) == file.type = ApplicationPdf

(***************************************************************************)
(* Values.  null is <<>>, a present value x is <<x>>.                      *)
(***************************************************************************)
Null == <<>>
Some(x) == <<x>>

Variants == {"page", "part_000", "part_001"}

\* An Error object, or a rejection value that is no Error (img.onerror's Event)
Err(msg) == [isError |-> TRUE, message |-> msg]
NotAnError == [isError |-> FALSE, message |-> "[object Event]"]

\* What the external libraries and the browser put into their own errors
LibMessages == {"library: internal detail", ""}

\* new File([blob], name, {type: 'image/jpeg'})
JpegFile(n, d) == [name |-> n, type |-> ImageJpeg, data |-> d]

\* FileReader.readAsDataURL's result for a file that was read
DataUrl(file) == [mime |-> file.type, data |-> file.data]

(***************************************************************************)
(* Format detection: the if/else-if chain of processAndUploadFile.         *)
(***************************************************************************)
\* Faulty version: the extension is compared without toLowerCase()
IsHeicNameCaseSensitive(file) ==
    \/ EndsWith(file.name, DotHeic)
    \/ EndsWith(file.name, DotHeif)

\* fileName.endsWith('.heic') || fileName.endsWith('.heif'), fileName = file.name.toLowerCase()
IsHeicName(file) ==
    \/ EndsWith(ToLowerCase(file.name), DotHeic)
    \/ EndsWith(ToLowerCase(file.name), DotHeif)

\* Faulty version: the final else uploads the file as it is instead of throwing
BranchPageLenient(file) ==
    IF IsHeicName(file) THEN "heic"
    ELSE IF isPdfFile(file) THEN "pdf"
    ELSE IF isImageFile(file) /\ file.type # ImageJpeg /\ file.type # ImagePng
         THEN "convertible"
    ELSE "direct"

\* page.tsx, part_001
BranchPage(file) ==
    IF IsHeicName(file) THEN "heic"
    ELSE IF isPdfFile(file) THEN "pdf"
    ELSE IF isImageFile(file)
         THEN IF file.type = ImageJpeg \/ file.type = ImagePng
              THEN "direct" ELSE "convertible"
    ELSE "unsupported"

\* part_000: every image/* file is used as it is
BranchPart000(file) ==
    IF IsHeicName(file) THEN "heic"
    ELSE IF isPdfFile(file) THEN "pdf"
    ELSE IF isImageFile(file) THEN "direct"
    ELSE "unsupported"

Branch(file) ==
    IF variant = "part_000" THEN BranchPart000(file) ELSE BranchPage(file)

\* Faulty version: a limit of 100 MiB
ExceedsLimitTooLarge(file) == file.size > 100 * 1024 * 1024

\* if (file.size > MAX_FILE_SIZE) throw ...: page.tsx and part_001 only
ExceedsLimit(file) == file.size > MAX_FILE_SIZE

HasSizeGuard == variant \in {"page", "part_001"}

\* throw new Error('Unsupported file type') / `Unsupported file type: ${file.type}`
UnsupportedError(file) ==
    IF variant = "part_000" THEN Err("Unsupported file type: <file.type>")
    ELSE Err("Unsupported file type")

(***************************************************************************)
(* The interaction layer.                                                  *)
(***************************************************************************)
\* Faulty version: the controls stay enabled during the upload
ControlsDisabledWhileProcessing == fileStatus = "processing"

\* The drop zone's pointer-events-none and the buttons' disabled attribute
ControlsDisabled == fileStatus = "processing" \/ fileStatus = "uploading"

(***************************************************************************)
(* One call of processAndUploadFile.                                       *)
(*   pc        where the call is suspended, or how it ended                *)
(*   file      the argument                                                *)
(*   processed, previewUrl, request   its locals and the POST it issued    *)
(*   log       the values it passed to setFileStatus, in order             *)
(*   calls     the external routines it invoked, in order                  *)
(*   response  response.status of the response to its POST                 *)
(*   read      whether its FileReader delivered a result                   *)
(*   error     the message its catch block passed to setErrorMessage       *)
(***************************************************************************)
InFlightPcs == {"heic", "pdf", "imgload", "toblob", "preview", "fetch"}

NewAttempt(file) ==
    [pc |-> "start", file |-> file, processed |-> Null, previewUrl |-> Null,
     request |-> Null, log |-> <<"processing">>, calls |-> <<>>, error |-> Null,
     response |-> Null, read |-> Null]

\* The call has returned: its locals are gone
Returned(rec, pc, status) ==
    [rec EXCEPT !.pc = pc, !.log = Append(@, status),
                !.processed = Null, !.previewUrl = Null, !.request = Null]

\* Of a call that has returned and left no timer behind, only how it ended
\* is kept once the next call starts
Forget(rec) ==
    IF rec.pc \in {"failed", "succeeded"}
    THEN [rec EXCEPT !.file = File(<<>>, <<>>, 0, <<>>), !.log = <<>>,
                     !.calls = <<>>, !.error = Null, !.response = Null,
                     !.read = Null]
    ELSE rec

Put(a, rec) ==
    IF a = Len(attempts) + 1
    THEN Append([i \in 1..Len(attempts) |-> Forget(attempts[i])], rec)
    ELSE [attempts EXCEPT ![a] = rec]

InFlight(a) == attempts[a].pc \in InFlightPcs

\* error instanceof Error ? error.message : <fallback>
CatchMessage(e) ==
    IF e.isError THEN e.message
    ELSE IF variant = "part_000" THEN "Failed to process file"
    ELSE "Unknown error occurred"

\* The outer catch block
Caught(a, rec, e) ==
    /\ fileStatus' = "error"
    /\ errorMessage' = CatchMessage(e)
    /\ attempts' = Put(a, [Returned(rec, "failed", "error")
                             EXCEPT !.error = Some(CatchMessage(e))])

\* The call reaches its next await
Suspend(a, rec) ==
    /\ fileStatus' = fileStatus
    /\ errorMessage' = errorMessage
    /\ attempts' = Put(a, rec)

(***************************************************************************)
(* Inputs.                                                                 *)
(***************************************************************************)
NamePhotoHEIC == <<"p",".","H","E","I","C">>
NameHeif      == <<"p",".","h","e","i","f">>
NameHeicMixed == <<"p",".","H","e","I","c">>
NamePdf       == <<"i",".","p","d","f">>
NamePdfUpper  == <<"i",".","P","D","F">>
NameJpg       == <<"s",".","j","p","g">>
NamePng       == <<"s",".","p","n","g">>
NameWebp      == <<"s",".","w","e","b","p">>
NameTxt       == <<"n",".","t","x","t">>
NameNoExt     == <<"s","c","a","n">>
NameHeicInner == <<"p",".","h","e","i","c",".","j","p","g">>
NameHeicNoDot == <<"h","e","i","c">>
NameTrailDot  == <<"s",".">>

Names ==
    {NamePhotoHEIC, NameHeif, NameHeicMixed, NamePdf, NamePdfUpper, NameJpg,
     NamePng, NameWebp, NameTxt, NameNoExt, NameHeicInner, NameHeicNoDot,
     NameTrailDot}

Types == {ImageJpeg, ImagePng, ImageWebp, ImageHeic, ApplicationPdf, TextPlain, NoType}

Sizes == {2 * 1024 * 1024, MAX_FILE_SIZE, MAX_FILE_SIZE + 1, 15 * 1024 * 1024}

\* Every file a user can hand in
AllFiles == {File(n, t, s, <<"input">>) : n \in Names, t \in Types, s \in Sizes}

\* A HEIC photo, a PDF, an image that is no JPEG or PNG, a text file and a
\* PNG over the size limit
CoreFiles ==
    {File(NamePhotoHEIC, NoType, 2 * 1024 * 1024, <<"input">>),
     File(NamePdf, ApplicationPdf, 2 * 1024 * 1024, <<"input">>),
     File(NameWebp, ImageWebp, 2 * 1024 * 1024, <<"input">>),
     File(NameTxt, TextPlain, 2 * 1024 * 1024, <<"input">>),
     File(NamePng, ImagePng, 15 * 1024 * 1024, <<"input">>)}

\* heic2any resolves with a Blob or with a Blob[]
DecodeResults ==
    {[isArray |-> FALSE, blobs |-> <<"jpeg of image 1">>],
     [isArray |-> TRUE,  blobs |-> <<"jpeg of image 1">>],
     [isArray |-> TRUE,  blobs |-> <<"jpeg of image 1", "jpeg of image 2">>]}

\* canvas.toBlob hands its callback a Blob or null
EncodeResults == {<<"jpeg of the image">>, <<"null">>}

PdfStages == {"import", "buffer", "load", "page", "context", "render", "encode"}

\* response.status of the POST
Statuses == {200, 204, 299, 300, 404, 500}

\* The outcomes the external routines are given: all of them, and the
\* ordinary ones
\* Math.random().toString(36): "0." and the digits of the number to base 36
RandomTexts ==
    {<<"0",".","i">>,
     <<"0",".","4","f","z","y","o","8","2">>,
     <<"0",".","k","q","1","c","m","8","2">>,
     <<"0",".","4","f","z","y","o","t","7">>}

Digits == <<"0","1","2","3","4","5","6","7","8","9">>

\* n.toString()
RECURSIVE ToDecimal(_)
ToDecimal(n) ==
    IF n < 10 THEN <<Digits[n + 1]>>
    ELSE Append(ToDecimal(n \div 10), Digits[(n % 10) + 1])

\* The k-th number drawn when every draw differs from the others
OrdinaryText(k) == <<"0",".","4","f","z","y","o">> \o ToDecimal(k)

AllOutcomes ==
    [decode |-> DecodeResults, blobs |-> EncodeResults, reads |-> {TRUE, FALSE},
     statuses |-> Statuses, bodies |-> {TRUE, FALSE},
     ticks |-> {0, 1},
     draws |-> [k \in 1..MaxAttempts |-> RandomTexts]]
CoreOutcomes ==
    [decode |-> {[isArray |-> FALSE, blobs |-> <<"jpeg of image 1">>]},
     blobs  |-> {<<"jpeg of the image">>},
     reads  |-> {TRUE},
     statuses |-> {200, 500},
     bodies |-> {TRUE},
     ticks |-> {1},
     draws |-> [k \in 1..MaxAttempts |-> {OrdinaryText(k)}]]

\* The ordinary outcomes, with any clock reading and any number drawn
HistoryOutcomes ==
    [CoreOutcomes EXCEPT !.ticks = {0, 1},
                         !.draws = [k \in 1..MaxAttempts |-> RandomTexts]]

(***************************************************************************)
(* processAndUploadFile, from its call to its first await.                 *)
(***************************************************************************)
Begin(file) ==
    LET a   == Len(attempts) + 1
        rec == NewAttempt(file)
    IN  /\ previewFile' = Null
        /\ UNCHANGED <<variant, webhookUrl, uploadHistory, nSuccess>>
        /\ IF HasSizeGuard /\ ExceedsLimit(file)
           THEN Caught(a, rec, Err("File size exceeds 10MB limit"))
           ELSE LET b == Branch(file)
                    go(pc, call, processed) ==
                        /\ fileStatus' = "processing"
                        /\ errorMessage' = ""
                        /\ attempts' = Put(a, [rec EXCEPT !.pc = pc,
                                                          !.calls = <<call>>,
                                                          !.processed = processed])
                IN  CASE b = "heic"        -> go("heic", "heic2any", Null)
                      [] b = "pdf"         -> go("pdf", "pdfjs", Null)
                      [] b = "direct"      -> go("preview", "readAsDataURL", Some(file))
                      [] b = "convertible" -> go("imgload", "imageLoad", Null)
                      [] OTHER             -> Caught(a, rec, UnsupportedError(file))

\* handleDrop: a file dropped on the drop zone
handleDrop(files) ==
    /\ ~ControlsDisabled
    /\ Len(attempts) < MaxAttempts
    /\ \E file \in files : Begin(file)

\* handleFileInput: a file chosen through Select File, Take Photo or a click on the zone
handleFileInput(files) ==
    /\ ~ControlsDisabled
    /\ Len(attempts) < MaxAttempts
    /\ \E file \in files : Begin(file)

(***************************************************************************)
(* convertHeicToJpeg.                                                      *)
(***************************************************************************)
\* page.tsx: new File([convertedBlob], ...): a Blob[] is no BlobPart and is
\* turned into text
HeicDataPage(result) ==
    IF result.isArray THEN <<"text of the list">> ELSE <<result.blobs[1]>>

\* part_000, part_001: Array.isArray(convertedBlob) ? convertedBlob[0] : convertedBlob
HeicDataFirst(result) == <<result.blobs[1]>>

HeicData(result) ==
    IF variant = "page" THEN HeicDataPage(result) ELSE HeicDataFirst(result)

\* Faulty version: the decoder's error is passed on as it is
HeicErrorVerbatim(libMessage) == Err(libMessage)

\* catch (error) { throw new Error('Failed to convert HEIC image') }
HeicError(libMessage) == Err("Failed to convert HEIC image")

\* The promise of convertHeicToJpeg settles: heic2any threw or rejected
HeicFails(a) ==
    /\ a \in 1..Len(attempts)
    /\ attempts[a].pc = "heic"
    /\ \E libMessage \in LibMessages :
         Caught(a, attempts[a], HeicError(libMessage))
    /\ UNCHANGED <<variant, webhookUrl, previewFile, uploadHistory, nSuccess>>

\* ... or it resolved; processAndUploadFile goes on to createImagePreview
HeicConverts(a, results) ==
    /\ a \in 1..Len(attempts)
    /\ attempts[a].pc = "heic"
    /\ \E result \in results :
         Suspend(a, [attempts[a] EXCEPT
            !.pc = "preview",
            !.calls = Append(@, "readAsDataURL"),
            !.processed = Some(JpegFile(ReplaceHeicExt(attempts[a].file.name),
                                        HeicData(result)))])
    /\ UNCHANGED <<variant, webhookUrl, previewFile, uploadHistory, nSuccess>>

(***************************************************************************)
(* convertPdfToJpeg.                                                       *)
(***************************************************************************)
\* page.tsx, part_001: catch (error) { throw new Error('Failed to convert PDF') }
PdfErrorPage(stage, libMessage) == Err("Failed to convert PDF")

\* part_000: catch (error) { throw error }
PdfErrorPart000(stage, libMessage) ==
    CASE stage = "context" -> Err("Failed to get canvas context")
      [] stage = "encode"  -> Err("Failed to convert canvas to blob")
      [] OTHER             -> Err(libMessage)

PdfError(stage, libMessage) ==
    IF variant = "part_000" THEN PdfErrorPart000(stage, libMessage)
    ELSE PdfErrorPage(stage, libMessage)

PdfFails(a) ==
    /\ a \in 1..Len(attempts)
    /\ attempts[a].pc = "pdf"
    /\ \E stage \in PdfStages, libMessage \in LibMessages :
         Caught(a, attempts[a], PdfError(stage, libMessage))
    /\ UNCHANGED <<variant, webhookUrl, previewFile, uploadHistory, nSuccess>>

\* pdf.getPage(1), scale 2.0, white background, canvas.toBlob(.., 'image/jpeg', 0.95)
PdfConverts(a) ==
    /\ a \in 1..Len(attempts)
    /\ attempts[a].pc = "pdf"
    /\ Suspend(a, [attempts[a] EXCEPT
            !.pc = "preview",
            !.calls = Append(@, "readAsDataURL"),
            !.processed = Some(JpegFile(ReplacePdfExt(attempts[a].file.name),
                                        <<"jpeg of page 1">>))])
    /\ UNCHANGED <<variant, webhookUrl, previewFile, uploadHistory, nSuccess>>

(***************************************************************************)
(* The canvas re-encode of other image/* files (page.tsx, part_001).       *)
(***************************************************************************)
\* img.onerror = reject: the rejection value is an Event
ImageLoadFails(a) ==
    /\ a \in 1..Len(attempts)
    /\ attempts[a].pc = "imgload"
    /\ Caught(a, attempts[a], NotAnError)
    /\ UNCHANGED <<variant, webhookUrl, previewFile, uploadHistory, nSuccess>>

\* img.onload: ctx!.drawImage(img, 0, 0), then canvas.toBlob
ImageLoads(a) ==
    /\ a \in 1..Len(attempts)
    /\ attempts[a].pc = "imgload"
    /\ \E haveContext \in BOOLEAN :
         IF haveContext
         THEN Suspend(a, [attempts[a] EXCEPT !.pc = "toblob",
                                             !.calls = Append(@, "canvasEncode")])
         ELSE Caught(a, attempts[a],
                     Err("Cannot read properties of null (reading 'drawImage')"))
    /\ UNCHANGED <<variant, webhookUrl, previewFile, uploadHistory, nSuccess>>

\* Faulty version: the callback resolves only when it is handed a blob, so
\* the call waits for ever when it is handed none
ToBlobDeliversIfBlob(a, blobs) ==
    /\ a \in 1..Len(attempts)
    /\ attempts[a].pc = "toblob"
    /\ \E blob \in blobs :
         Suspend(a, [attempts[a] EXCEPT
            !.pc = IF blob = <<"null">> THEN "waiting" ELSE "preview",
            !.calls = IF blob = <<"null">> THEN @ ELSE Append(@, "readAsDataURL"),
            !.processed = IF blob = <<"null">> THEN @
                          ELSE Some(JpegFile(ReplaceAnyExt(attempts[a].file.name), blob))])
    /\ UNCHANGED <<variant, webhookUrl, previewFile, uploadHistory, nSuccess>>

\* canvas.toBlob((blob) => resolve(blob!)): the blob may be null, and
\* new File([null], ...) holds the text "null"
ToBlobDelivers(a, blobs) ==
    /\ a \in 1..Len(attempts)
    /\ attempts[a].pc = "toblob"
    /\ \E blob \in blobs :
         Suspend(a, [attempts[a] EXCEPT
            !.pc = "preview",
            !.calls = Append(@, "readAsDataURL"),
            !.processed = Some(JpegFile(ReplaceAnyExt(attempts[a].file.name), blob))])
    /\ UNCHANGED <<variant, webhookUrl, previewFile, uploadHistory, nSuccess>>

(***************************************************************************)
(* createImagePreview, then the upload.                                    *)
(***************************************************************************)
\* reader.onloadend = () => resolve(reader.result): the data URI, or null
\* when the read failed
ReadResult(file, wasRead) == IF wasRead THEN Some(DataUrl(file)) ELSE Null

\* part_000: if (!webhookUrl) throw new Error('Webhook URL not configured')
ChecksWebhookUrl == variant = "part_000"

\* fetch(process.env.NEXT_PUBLIC_WEBHOOK_URL!, ...): an absent value is
\* converted to the URL "undefined"
RequestUrl == IF webhookUrl = Null THEN "undefined" ELSE webhookUrl[1]

\* The preview read settles: setPreviewFile, setFileStatus('uploading'), fetch
PreviewSettles(a, reads) ==
    /\ a \in 1..Len(attempts)
    /\ attempts[a].pc = "preview"
    /\ \E wasRead \in reads :
         LET processedFile == attempts[a].processed[1]
             result == ReadResult(processedFile, wasRead)
             rec == [attempts[a] EXCEPT !.previewUrl = Some(result),
                                        !.read = Some(wasRead),
                                        !.log = Append(@, "uploading")]
         IN  /\ previewFile' = Some([file |-> processedFile, previewUrl |-> result])
             /\ IF ChecksWebhookUrl /\ webhookUrl = Null
                THEN Caught(a, rec, Err("Webhook URL not configured"))
                ELSE /\ fileStatus' = "uploading"
                     /\ errorMessage' = errorMessage
                     /\ attempts' = Put(a, [rec EXCEPT
                            !.pc = "fetch",
                            !.calls = Append(@, "fetch"),
                            !.request = Some([url |-> RequestUrl,
                                              file |-> processedFile])])
    /\ UNCHANGED <<variant, webhookUrl, uploadHistory, nSuccess>>

\* if (!response.ok) throw ...
UploadError(status) ==
    IF variant = "part_000"
    THEN Err("Upload failed with status <status>: <statusText>")
    ELSE Err("Upload failed")

\* Faulty version: every status below 500 is taken as a success
ResponseOkLenient(status) == status >= 200 /\ status <= 499

\* response.ok
ResponseOk(status) == status >= 200 /\ status <= 299

\* part_000: const responseText = await response.text(), before the throw
ReadsErrorBody == variant = "part_000"

\* What the call throws on a response that is not ok; reading the body of
\* the response may itself fail as the request can
ResponseError(status, bodyRead) ==
    IF ReadsErrorBody /\ ~bodyRead THEN Err("Failed to fetch")
    ELSE UploadError(status)

\* Faulty version: a request that failed on the network is issued again
FetchRejectsRetrying(a) ==
    /\ a \in 1..Len(attempts)
    /\ attempts[a].pc = "fetch"
    /\ IF Len(attempts[a].calls) < 4
       THEN Suspend(a, [attempts[a] EXCEPT !.calls = Append(@, "fetch")])
       ELSE Caught(a, attempts[a], Err("Failed to fetch"))
    /\ UNCHANGED <<variant, webhookUrl, previewFile, uploadHistory, nSuccess>>

\* The fetch promise rejects: no response
FetchRejects(a) ==
    /\ a \in 1..Len(attempts)
    /\ attempts[a].pc = "fetch"
    /\ Caught(a, attempts[a], Err("Failed to fetch"))
    /\ UNCHANGED <<variant, webhookUrl, previewFile, uploadHistory, nSuccess>>

\* Faulty version: no timeout is set
SchedulesResetNever == FALSE

\* setTimeout(() => {...}, 3000) after setFileStatus('success'): page.tsx, part_001
SchedulesReset == variant \in {"page", "part_001"}

\* s.substring(k)
Substring(s, k) == IF k >= Len(s) THEN <<>> ELSE SubSeq(s, k + 1, Len(s))

\* page.tsx, part_001: Math.random().toString(36).substring(7)
\* part_000: Date.now().toString()
NewId(now, text) ==
    IF variant = "part_000" THEN ToDecimal(now) ELSE Substring(text, 7)

\* The clock, in milliseconds, when the newest entry was made
LastTimestamp == IF uploadHistory = <<>> THEN 0 ELSE uploadHistory[1].timestamp

\* Faulty version: the new entry is put at the end
Appended(entry, prev) == Append(prev, entry)

\* setUploadHistory(prev => [newUpload, ...prev])
Prepended(entry, prev) == <<entry>> \o prev

\* The history entry of a successful upload ("by" names the call, for the
\* properties only)
NewUpload(a, now, text) ==
    [id         |-> NewId(now, text),
     previewUrl |-> attempts[a].previewUrl[1],
     fileName   |-> attempts[a].processed[1].name,
     timestamp  |-> now,
     by         |-> a]

\* Faulty version: the entry is added before response.ok is looked at
FetchRespondsEager(a, outcomes) ==
    /\ a \in 1..Len(attempts)
    /\ attempts[a].pc = "fetch"
    /\ \E tick \in outcomes.ticks, text \in outcomes.draws[nSuccess + 1] :
         uploadHistory' =
            Prepended(NewUpload(a, LastTimestamp + tick, text), uploadHistory)
    /\ \E status \in outcomes.statuses, bodyRead \in outcomes.bodies :
         LET rec == [attempts[a] EXCEPT !.response = Some(status)]
         IN
         IF ResponseOk(status)
         THEN /\ fileStatus' = "success"
              /\ nSuccess' = nSuccess + 1
              /\ errorMessage' = errorMessage
              /\ attempts' = Put(a, Returned(rec,
                                 IF SchedulesReset THEN "timer" ELSE "succeeded",
                                 "success"))
         ELSE /\ Caught(a, rec, ResponseError(status, bodyRead))
              /\ UNCHANGED nSuccess
    /\ UNCHANGED <<variant, webhookUrl, previewFile>>

\* The response arrives
FetchResponds(a, outcomes) ==
    /\ a \in 1..Len(attempts)
    /\ attempts[a].pc = "fetch"
    /\ \E status \in outcomes.statuses, bodyRead \in outcomes.bodies :
         LET rec == [attempts[a] EXCEPT !.response = Some(status)]
         IN
         IF ResponseOk(status)
         THEN /\ \E tick \in outcomes.ticks, text \in outcomes.draws[nSuccess + 1] :
                   uploadHistory' =
                      Prepended(NewUpload(a, LastTimestamp + tick, text),
                                uploadHistory)
              /\ fileStatus' = "success"
              /\ nSuccess' = nSuccess + 1
              /\ errorMessage' = errorMessage
              /\ attempts' = Put(a, Returned(rec,
                                 IF SchedulesReset THEN "timer" ELSE "succeeded",
                                 "success"))
         ELSE /\ Caught(a, rec, ResponseError(status, bodyRead))
              /\ UNCHANGED <<uploadHistory, nSuccess>>
    /\ UNCHANGED <<variant, webhookUrl, previewFile>>

\* Position in uploadHistory of the entry call a prepended
EntryOf(a) == CHOOSE i \in 1..Len(uploadHistory) : uploadHistory[i].by = a

\* All timeouts have the same delay, so they expire in the order they were
\* set: the order of the successes, which uploadHistory holds newest first
OldestTimer(a) ==
    \A b \in 1..Len(attempts) :
        attempts[b].pc = "timer" => EntryOf(b) <= EntryOf(a)

\* Faulty version: the reset also empties the history
TimerFiresClearing(a) ==
    /\ a \in 1..Len(attempts)
    /\ attempts[a].pc = "timer"
    /\ OldestTimer(a)
    /\ fileStatus' = "idle"
    /\ previewFile' = Null
    /\ uploadHistory' = <<>>
    /\ attempts' = Put(a, Returned(attempts[a], "succeeded", "idle"))
    /\ UNCHANGED <<variant, webhookUrl, errorMessage, nSuccess>>

\* The timeout callback: setFileStatus('idle'); setPreviewFile(null)
TimerFires(a) ==
    /\ a \in 1..Len(attempts)
    /\ attempts[a].pc = "timer"
    /\ OldestTimer(a)
    /\ fileStatus' = "idle"
    /\ previewFile' = Null
    /\ attempts' = Put(a, Returned(attempts[a], "succeeded", "idle"))
    /\ UNCHANGED <<variant, webhookUrl, errorMessage, uploadHistory, nSuccess>>

(***************************************************************************)
(* The system.                                                             *)
(***************************************************************************)
Urls == {Null, Some("https://hooks.example/receipts")}

Init ==
    /\ variant \in Variants
    /\ webhookUrl \in Urls
    /\ fileStatus = "idle"
    /\ errorMessage = ""
    /\ previewFile = Null
    /\ uploadHistory = <<>>
    /\ attempts = <<>>
    /\ nSuccess = 0

Settles(a, outcomes) ==
    \/ HeicFails(a)
    \/ HeicConverts(a, outcomes.decode)
    \/ PdfFails(a)
    \/ PdfConverts(a)
    \/ ImageLoadFails(a)
    \/ ImageLoads(a)
    \/ ToBlobDelivers(a, outcomes.blobs)
    \/ PreviewSettles(a, outcomes.reads)
    \/ FetchRejects(a)
    \/ FetchResponds(a, outcomes)
    \/ TimerFires(a)

\* Any number of attempts on one file per path, the external routines
\* delivering their ordinary results or failing
Next ==
    \/ handleDrop(CoreFiles)
    \/ handleFileInput(CoreFiles)
    \/ \E a \in 1..MaxAttempts : Settles(a, CoreOutcomes)

Spec == Init /\ [][Next]_vars

\* One attempt, on any file and with any outcome
NextSingle ==
    \/ (attempts = <<>> /\ handleDrop(AllFiles))
    \/ (attempts = <<>> /\ handleFileInput(AllFiles))
    \/ Settles(1, AllOutcomes)

SpecSingle == Init /\ [][NextSingle]_vars

\* Any number of attempts, with any clock reading and any number drawn for
\* the identifier of a history entry
NextHistory ==
    \/ (Len(attempts) < MaxUploads /\ handleDrop(CoreFiles))
    \/ (Len(attempts) < MaxUploads /\ handleFileInput(CoreFiles))
    \/ \E a \in 1..MaxAttempts : Settles(a, HistoryOutcomes)

SpecHistory == Init /\ [][NextHistory]_vars

\* The same, the browser running the callback of a timeout that has expired
SpecSingleFair == SpecSingle /\ WF_vars(TimerFires(1))

\* One attempt, every external step of which resolves or rejects in the end
SpecSingleLive == SpecSingle /\ WF_vars(Settles(1, AllOutcomes))

(***************************************************************************)
(* Properties.                                                             *)
(***************************************************************************)
Calls == 1..Len(attempts)

EntriesBy(a) == {i \in 1..Len(uploadHistory) : uploadHistory[i].by = a}

NameJpgOfPhoto == <<"p",".","j","p","g">>

Stepped(a) ==
    /\ a \in 1..Len(attempts')
    /\ \/ a > Len(attempts)
       \/ attempts'[a].pc # attempts[a].pc

C3_HistoryIffSuccess ==
    /\ Len(uploadHistory) = nSuccess
    /\ \A a \in Calls :
         Cardinality(EntriesBy(a)) =
            IF attempts[a].pc \in {"timer", "succeeded"} THEN 1 ELSE 0
    /\ \A i \in 1..Len(uploadHistory) : uploadHistory[i].by \in Calls

\* Two calls succeeded, one failed.
C3_Witness ==
    /\ Len(attempts) = 3
    /\ nSuccess = 2
    /\ Len(uploadHistory) = 2
    /\ \E a \in Calls : attempts[a].pc = "failed"

\* C4: at most one call of processAndUploadFile is in flight.
C4_AtMostOneInFlight ==
    Cardinality({a \in Calls : InFlight(a)}) <= 1

\* C5: the controls are disabled exactly in processing and uploading, and
\* while they are disabled no step starts a call; while they are enabled a
\* drop starts one.
C5_DisabledControls ==
    [][/\ ControlsDisabled <=> fileStatus \in {"processing", "uploading"}
       /\ fileStatus \in {"processing", "uploading"} =>
             Len(attempts') = Len(attempts)
       /\ (fileStatus \in {"idle", "success", "error"}
             /\ Len(attempts) < MaxAttempts) => ENABLED handleDrop(CoreFiles)]_vars

\* A call is uploading, and a drop is not possible.
C5_Witness ==
    /\ fileStatus = "uploading"
    /\ \E a \in Calls : attempts[a].pc = "fetch"
    /\ Len(attempts) < MaxAttempts
    /\ ~ ENABLED handleDrop(CoreFiles)

(***************************************************************************)
(* The format detector as section 4.1 of the specification words it.       *)
(***************************************************************************)
EndsInHeicOrHeif(name) ==
    LET n == Len(name)
    IN  /\ n >= 5
        /\ name[n - 4] = "."
        /\ name[n - 3] \in {"h", "H"}
        /\ name[n - 2] \in {"e", "E"}
        /\ name[n - 1] \in {"i", "I"}
        /\ name[n] \in {"c", "C", "f", "F"}

HasImageType(file) ==
    /\ Len(file.type) >= 6
    /\ \A i \in 1..6 : file.type[i] = ImagePrefix[i]

Category(file) ==
    IF EndsInHeicOrHeif(file.name) THEN "heic"
    ELSE IF file.type = ApplicationPdf THEN "pdf"
    ELSE IF HasImageType(file) /\ file.type \in {ImageJpeg, ImagePng} THEN "direct"
    ELSE IF HasImageType(file) THEN "convertible"
    ELSE "unsupported"

\* The size guard of page.tsx and part_001 turns the file away
TurnedAway(file) ==
    variant \in {"page", "part_001"} /\ file.size > 10 * 1024 * 1024

\* The branch a call took, read off what it invoked first
TakenBranch(rec) ==
    IF rec.calls = <<>> THEN "unsupported"
    ELSE CASE rec.calls[1] = "heic2any"  -> "heic"
           [] rec.calls[1] = "pdfjs"     -> "pdf"
           [] rec.calls[1] = "imageLoad" -> "convertible"
           [] OTHER                      -> "direct"

ConversionCalls == {"heic2any", "pdfjs", "imageLoad", "canvasEncode"}

\* C6: in page.tsx and part_001 a file over 10 MiB, whatever its name and
\* type, ends in status error with the oversize message, and no conversion
\* routine, preview read or request was invoked.
C6_OversizeRejected ==
    variant \in {"page", "part_001"} =>
        \A a \in Calls :
            attempts[a].file.size > 10 * 1024 * 1024 =>
                /\ attempts[a].pc = "failed"
                /\ attempts[a].calls = <<>>
                /\ attempts[a].log = <<"processing", "error">>
                /\ attempts[a].error = Some("File size exceeds 10MB limit")
                /\ fileStatus = "error"
                /\ errorMessage = "File size exceeds 10MB limit"
                /\ previewFile = Null

\* A photo of one byte over the limit with a HEIC name, declared a PDF.
C6_Witness ==
    /\ variant = "part_001"
    /\ Len(attempts) = 1
    /\ attempts[1].file.size = 10 * 1024 * 1024 + 1
    /\ attempts[1].file.name = NameHeicMixed
    /\ attempts[1].file.type = ApplicationPdf
    /\ attempts[1].pc = "failed"
    /\ fileStatus = "error"

\* C7: a file whose name ends in .heic or .heif in any letter case, whatever
\* its type, is handed to the HEIC conversion and to no other conversion, once
\* it is past the size guard.
C7_HeicByName ==
    \A a \in Calls :
        (EndsInHeicOrHeif(attempts[a].file.name) /\ ~TurnedAway(attempts[a].file)) =>
            /\ attempts[a].calls # <<>>
            /\ attempts[a].calls[1] = "heic2any"
            /\ \A i \in 2..Len(attempts[a].calls) :
                 attempts[a].calls[i] \notin ConversionCalls

\* p.HeIc declared application/pdf is with the HEIC decoder.
C7_Witness ==
    /\ Len(attempts) = 1
    /\ attempts[1].file.name = NameHeicMixed
    /\ attempts[1].file.type = ApplicationPdf
    /\ attempts[1].pc = "heic"
    /\ attempts[1].calls = <<"heic2any">>

\* C8: a file whose name does not end in .heic/.heif takes the branch of its
\* type: pdf for application/pdf, direct for image/jpeg and image/png,
\* convertible for any other image/*, unsupported otherwise.
C8_BranchByType ==
    \A a \in Calls :
        (~EndsInHeicOrHeif(attempts[a].file.name) /\ ~TurnedAway(attempts[a].file)) =>
            TakenBranch(attempts[a]) = Category(attempts[a].file)

\* C9: a file the detector finds unsupported ends in status error with the
\* unsupported-type message, and no conversion routine, preview read or
\* request was invoked.
C9_UnsupportedRejected ==
    \A a \in Calls :
        (Category(attempts[a].file) = "unsupported" /\ ~TurnedAway(attempts[a].file)) =>
            /\ attempts[a].pc = "failed"
            /\ attempts[a].calls = <<>>
            /\ attempts[a].log = <<"processing", "error">>
            /\ attempts[a].error \in {Some("Unsupported file type"),
                                      Some("Unsupported file type: <file.type>")}
            /\ fileStatus = "error"
            /\ errorMessage = attempts[a].error[1]
            /\ previewFile = Null

\* A .pdf name with no declared type was turned down.
C9_Witness ==
    /\ Len(attempts) = 1
    /\ attempts[1].file.name = NamePdf
    /\ attempts[1].file.type = NoType
    /\ attempts[1].pc = "failed"
    /\ errorMessage = "Unsupported file type"

\* C10: the file previewed and uploaded for a JPEG or PNG is the input file
\* itself, and the file uploaded for any other image/* is another file, of
\* type image/jpeg.
C10_PassThroughOrReencode ==
    \A a \in Calls :
        (attempts[a].pc = "fetch" /\ ~EndsInHeicOrHeif(attempts[a].file.name)) =>
            /\ attempts[a].file.type \in {ImageJpeg, ImagePng} =>
                 /\ attempts[a].request[1].file = attempts[a].file
                 /\ previewFile # Null
                 /\ previewFile[1].file = attempts[a].file
            /\ (HasImageType(attempts[a].file)
                  /\ attempts[a].file.type \notin {ImageJpeg, ImagePng}) =>
                 /\ attempts[a].request[1].file # attempts[a].file
                 /\ attempts[a].request[1].file.type = ImageJpeg

(***************************************************************************)
(* The normalizer as section 4.2 of the specification words it.            *)
(***************************************************************************)
EndsInJpg(name) ==
    LET n == Len(name)
    IN  /\ n >= 4
        /\ name[n - 3] = "."
        /\ name[n - 2] = "j"
        /\ name[n - 1] = "p"
        /\ name[n] = "g"

\* The name without its extension: up to the last dot, or all of it
BaseName(name) ==
    LET dots == {i \in 1..Len(name) : name[i] = "."}
    IN  IF dots = {} THEN name
        ELSE SubSeq(name, 1, (CHOOSE i \in dots : \A j \in dots : j <= i) - 1)

\* The call's conversion has delivered its file
Converted(rec) ==
    /\ rec.pc \in {"preview", "fetch"}
    /\ TakenBranch(rec) \in {"heic", "pdf", "convertible"}

\* C11: the file a successful HEIC, PDF or canvas conversion delivers has type
\* image/jpeg and is named as the input with its extension replaced by .jpg,
\* so its name ends in .jpg.
C11_NormalizedJpeg ==
    \A a \in Calls :
        Converted(attempts[a]) =>
            /\ attempts[a].processed[1].type = ImageJpeg
            /\ attempts[a].processed[1].name =
                  BaseName(attempts[a].file.name) \o <<".", "j", "p", "g">>
            /\ EndsInJpg(attempts[a].processed[1].name)

\* C12: a call whose HEIC decoder failed ends in status error, and the
\* message shown is 'Failed to convert HEIC image', which is no message of the
\* decoder; nothing was previewed, requested or added to the history.
C12_HeicFailureGeneric ==
    \A a \in Calls :
        (attempts[a].pc = "failed" /\ attempts[a].calls = <<"heic2any">>) =>
            /\ attempts[a].log = <<"processing", "error">>
            /\ attempts[a].error = Some("Failed to convert HEIC image")
            /\ attempts[a].error[1] \notin LibMessages
            /\ fileStatus = "error"
            /\ errorMessage = "Failed to convert HEIC image"
            /\ previewFile = Null
            /\ uploadHistory = <<>>

\* The decoder failed on p.heif.
C12_Witness ==
    /\ Len(attempts) = 1
    /\ attempts[1].file.name = NameHeif
    /\ attempts[1].calls = <<"heic2any">>
    /\ attempts[1].pc = "failed"
    /\ fileStatus = "error"
    /\ errorMessage = "Failed to convert HEIC image"

\* C13: in every variant a call whose PDF conversion failed, at whatever
\* stage and with whatever underlying message, ends in status error with the
\* one message 'Failed to convert PDF', which is no message of the library.
C13_PdfFailureGeneric ==
    \A a \in Calls :
        (attempts[a].pc = "failed" /\ attempts[a].calls = <<"pdfjs">>) =>
            /\ attempts[a].log = <<"processing", "error">>
            /\ attempts[a].error = Some("Failed to convert PDF")
            /\ attempts[a].error[1] \notin LibMessages
            /\ fileStatus = "error"
            /\ errorMessage = "Failed to convert PDF"

\* The decoder's results all have the same first image
FirstDecoded == <<"jpeg of image 1">>

\* C14: in every variant the file the HEIC conversion delivers holds the
\* first element of the decoder's result when that is a list, and the result
\* itself when it is a single one.
C14_FirstOfDecoded ==
    \A a \in Calls :
        (Converted(attempts[a]) /\ TakenBranch(attempts[a]) = "heic") =>
            attempts[a].processed[1].data = FirstDecoded

\* The values call rec passed to setFileStatus include status
Logged(rec, status) == \E i \in 1..Len(rec.log) : rec.log[i] = status

\* Call rec invoked the routine
Invoked(rec, routine) == \E i \in 1..Len(rec.calls) : rec.calls[i] = routine

\* C15: in every variant, with no NEXT_PUBLIC_WEBHOOK_URL configured, no call
\* issues a request, and a call that has reached the upload stage has ended in
\* status error with the message that the URL is not configured.
C15_MissingUrlReported ==
    webhookUrl = Null =>
        \A a \in Calls :
            /\ ~Invoked(attempts[a], "fetch")
            /\ attempts[a].request = Null
            /\ Logged(attempts[a], "uploading") =>
                 /\ attempts[a].pc = "failed"
                 /\ attempts[a].log = <<"processing", "uploading", "error">>
                 /\ attempts[a].error = Some("Webhook URL not configured")
                 /\ fileStatus = "error"
                 /\ errorMessage = "Webhook URL not configured"

\* The messages of a failed upload: of a response that is not ok, and of a
\* request that failed on the network
UploadFailureMessages ==
    {"Upload failed", "Upload failed with status <status>: <statusText>",
     "Failed to fetch"}

\* Call rec ended at its POST
EndedAtFetch(rec) ==
    /\ rec.pc \in {"failed", "timer", "succeeded"}
    /\ Invoked(rec, "fetch")

\* C16: a call whose POST was answered with a status outside 200..299, or
\* failed on the network, ends in status error with a message of the failed
\* upload, has never passed success to setFileStatus and has no entry in
\* uploadHistory; a call that ended in success had a status in 200..299.
C16_UploadFailure ==
    \A a \in Calls :
        EndedAtFetch(attempts[a]) =>
            /\ (\/ attempts[a].response = Null
                \/ attempts[a].response[1] < 200
                \/ attempts[a].response[1] > 299) =>
                  /\ attempts[a].pc = "failed"
                  /\ attempts[a].log = <<"processing", "uploading", "error">>
                  /\ attempts[a].error # Null
                  /\ attempts[a].error[1] \in UploadFailureMessages
                  /\ fileStatus = "error"
                  /\ errorMessage = attempts[a].error[1]
                  /\ EntriesBy(a) = {}
            /\ Logged(attempts[a], "success") =>
                  /\ attempts[a].response # Null
                  /\ attempts[a].response[1] >= 200
                  /\ attempts[a].response[1] <= 299

\* The endpoint answered the POST of the PDF's first page with 500.
C16_Witness ==
    /\ Len(attempts) = 1
    /\ attempts[1].file.type = ApplicationPdf
    /\ attempts[1].response = Some(500)
    /\ attempts[1].pc = "failed"
    /\ fileStatus = "error"
    /\ errorMessage = "Upload failed"
    /\ uploadHistory = <<>>

\* C17: a call whose preview read ended with no result is aborted there: it
\* has ended in status error, has not passed uploading to setFileStatus and
\* has issued no request.
C17_PreviewFailureAborts ==
    \A a \in Calls :
        attempts[a].read = Some(FALSE) =>
            /\ attempts[a].pc = "failed"
            /\ attempts[a].log = <<"processing", "error">>
            /\ ~Invoked(attempts[a], "fetch")
            /\ attempts[a].request = Null
            /\ fileStatus = "error"

\* The generic messages of a failed conversion
ConversionFailureMessages ==
    {"Failed to convert HEIC image", "Failed to convert PDF",
     "Failed to convert image"}

\* Call a has ended in status error, with nothing previewed or uploaded, and
\* the message shown is a generic one
AbortedAsConversionFailure(a) ==
    /\ attempts'[a].pc = "failed"
    /\ attempts'[a].log = <<"processing", "error">>
    /\ fileStatus' = "error"
    /\ errorMessage' \in ConversionFailureMessages
    /\ previewFile' = Null
    /\ ~Invoked(attempts'[a], "readAsDataURL")
    /\ ~Invoked(attempts'[a], "fetch")

\* C18: on the canvas path, the step in which the encode callback is handed
\* no blob, and the step in which the image is loaded but there is no 2D
\* context, end the call in status error with a generic conversion-failure
\* message, nothing previewed and nothing uploaded.
C18_ReencodeFailureAborts ==
    [][\A a \in Calls :
          /\ ToBlobDelivers(a, {<<"null">>}) => AbortedAsConversionFailure(a)
          /\ (ImageLoads(a) /\ attempts'[a].pc # "toblob") =>
                AbortedAsConversionFailure(a)]_vars

\* C19: in every variant, a status of success, with no further attempt
\* started, is followed by a status of idle without a step of the user.
C19_SuccessReturnsToIdle ==
    (fileStatus = "success") ~> (fileStatus = "idle")

\* C20: in page.tsx and part_001, the step in which a call fails sets
\* errorMessage to the message of that failure, which is not empty; no step
\* other than the start of a call changes an errorMessage that is not empty;
\* and the start of a call leaves errorMessage empty, or holding the message
\* of that call's own failure when it fails before its first stage.
C20_ErrorMessageRetained ==
    [][(variant \in {"page", "part_001"}) =>
         /\ \A a \in 1..Len(attempts') :
              /\ (Stepped(a) /\ attempts'[a].pc = "failed") =>
                    /\ attempts'[a].error # Null
                    /\ errorMessage' = attempts'[a].error[1]
                    /\ errorMessage' # ""
              /\ a > Len(attempts) =>
                    errorMessage' = IF attempts'[a].pc = "failed"
                                    THEN attempts'[a].error[1] ELSE ""
         /\ (errorMessage # "" /\ Len(attempts') = Len(attempts)) =>
               errorMessage' = errorMessage]_vars

\* C21: the entries of uploadHistory have pairwise distinct identifiers.
C21_DistinctIds ==
    \A i, j \in 1..Len(uploadHistory) :
        i # j => uploadHistory[i].id # uploadHistory[j].id

\* C22: every step leaves uploadHistory as it is or puts one new entry in
\* front of the entries it had, which stay as they were and in their order;
\* the entries are in the order of their timestamps, newest first.
C22_PrependOnly ==
    [][/\ \/ uploadHistory' = uploadHistory
          \/ /\ Len(uploadHistory') = Len(uploadHistory) + 1
             /\ SubSeq(uploadHistory', 2, Len(uploadHistory')) = uploadHistory
             /\ \A i \in 1..Len(uploadHistory) :
                   uploadHistory'[1] # uploadHistory[i]
       /\ \A i, j \in 1..Len(uploadHistory') :
             i < j => uploadHistory'[i].timestamp >= uploadHistory'[j].timestamp]_vars

\* Three successes, the third call's before the second's: the second call's
\* entry is in front.
C22_Witness ==
    /\ Len(uploadHistory) = 3
    /\ uploadHistory[1].by = 2
    /\ uploadHistory[2].by = 3
    /\ uploadHistory[3].by = 1
    /\ uploadHistory[1].timestamp > uploadHistory[2].timestamp

\* C23: the step in which a call issues its POST comes with the preview read
\* done, previewFile holding the file the call uploads and the data URI read
\* from it, and the status set to uploading by this call; a call that has
\* issued a request has passed uploading to setFileStatus before.
C23_PostAfterPreview ==
    [][\A a \in 1..Len(attempts') :
          /\ (Stepped(a) /\ attempts'[a].pc = "fetch") =>
                /\ a \in Calls
                /\ attempts[a].pc = "preview"
                /\ attempts'[a].calls =
                      Append(attempts[a].calls, "fetch")
                /\ Invoked(attempts[a], "readAsDataURL")
                /\ attempts'[a].request # Null
                /\ previewFile' # Null
                /\ previewFile'[1].file = attempts'[a].request[1].file
                /\ previewFile'[1].previewUrl # Null
                /\ previewFile'[1].previewUrl[1].mime = previewFile'[1].file.type
                /\ previewFile'[1].previewUrl[1].data = previewFile'[1].file.data
                /\ attempts'[a].log = <<"processing", "uploading">>
                /\ fileStatus' = "uploading"
          /\ Invoked(attempts'[a], "fetch") => Logged(attempts'[a], "uploading")]_vars

\* The number of requests call rec issued
Requests(rec) == Cardinality({i \in 1..Len(rec.calls) : rec.calls[i] = "fetch"})

\* C24: a call issues at most one POST: none when it failed before
\* uploading, and one, with no second one, when its POST failed or was
\* answered with a status that is not ok.
C24_AtMostOnePost ==
    \A a \in Calls :
        /\ Requests(attempts[a]) <= 1
        /\ (attempts[a].pc = "failed" /\ ~Logged(attempts[a], "uploading")) =>
              Requests(attempts[a]) = 0
        /\ (attempts[a].pc = "failed" /\ Invoked(attempts[a], "fetch")) =>
              /\ Requests(attempts[a]) = 1
              /\ attempts[a].calls[Len(attempts[a].calls)] = "fetch"

\* The request for the photo failed on the network: one request, the last
\* thing the call did.
C24_Witness ==
    /\ Len(attempts) = 1
    /\ attempts[1].pc = "failed"
    /\ attempts[1].calls = <<"heic2any", "readAsDataURL", "fetch">>
    /\ attempts[1].response = Null
    /\ errorMessage = "Failed to fetch"

\* C25: a step that is not the start of a call leaves a status of error and
\* the error message as they are.
C25_ErrorStays ==
    [][(fileStatus = "error" /\ Len(attempts') = Len(attempts)) =>
          /\ fileStatus' = "error"
          /\ errorMessage' = errorMessage]_vars

\* C26: in the state a call's failure before its preview read leaves,
\* previewFile is null.
C26_NoStalePreview ==
    [][\A a \in 1..Len(attempts') :
          (/\ Stepped(a)
           /\ attempts'[a].pc = "failed"
           /\ ~Invoked(attempts'[a], "readAsDataURL")) =>
              /\ fileStatus' = "error"
              /\ previewFile' = Null]_vars

\* Call a has failed at the upload stage
UploadFailed(a) ==
    /\ attempts[a].pc = "failed"
    /\ Logged(attempts[a], "uploading")

\* C27: in the state the failure of a call at the upload stage leaves,
\* previewFile holds the file that call was uploading and the data URI read
\* from it, and no step other than the start of a call changes previewFile
\* after that.
C27_PreviewKeptOnUploadError ==
    [][/\ \A a \in Calls :
             (/\ Stepped(a)
              /\ attempts'[a].pc = "failed"
              /\ Logged(attempts'[a], "uploading")) =>
                 /\ previewFile' # Null
                 /\ previewFile'[1].file = attempts[a].processed[1]
                 /\ previewFile'[1].previewUrl # Null
                 /\ previewFile'[1].previewUrl[1].mime = attempts[a].processed[1].type
                 /\ previewFile'[1].previewUrl[1].data = attempts[a].processed[1].data
       /\ (/\ fileStatus = "error"
           /\ \E a \in Calls : UploadFailed(a)
           /\ Len(attempts') = Len(attempts)) =>
              previewFile' = previewFile]_vars

\* C28: with every external step settling in the end, a status of processing
\* or uploading is followed by a status of success or error.
C28_AttemptEnds ==
    (fileStatus \in {"processing", "uploading"}) ~>
        (fileStatus \in {"success", "error"})

\* An image went through image load, canvas encode, preview read and POST,
\* and the call has returned in success.
C28_Witness ==
    /\ Len(attempts) = 1
    /\ attempts[1].calls = <<"imageLoad", "canvasEncode", "readAsDataURL", "fetch">>
    /\ attempts[1].log = <<"processing", "uploading", "success">>
    /\ attempts[1].pc = "timer"
    /\ fileStatus = "success"

\* C29: the step of a call's timeout, taken while a call started after it is
\* in processing or uploading, leaves the status and previewFile as they are.
C29_TimerSparesLaterAttempt ==
    [][\A a \in Calls :
          (/\ attempts[a].pc = "timer"
           /\ attempts'[a].pc = "succeeded"
           /\ \E b \in Calls : b > a /\ InFlight(b)) =>
              /\ fileStatus' = fileStatus
              /\ fileStatus' # "idle"
              /\ previewFile' = previewFile]_vars

\* C30: the entry a call's success puts into uploadHistory holds the name of
\* the file that call uploaded, which for a HEIC photo is not the name of the
\* input, and the data URI that call read from that file.
C30_EntryOfOneAttempt ==
    [][\A a \in Calls :
          (attempts[a].pc = "fetch" /\ attempts'[a].pc \in {"timer", "succeeded"}) =>
              LET entry == uploadHistory'[1]
                  processedFile == attempts[a].processed[1]
              IN  /\ Len(uploadHistory') = Len(uploadHistory) + 1
                  /\ entry.by = a
                  /\ entry.fileName = processedFile.name
                  /\ processedFile = attempts[a].request[1].file
                  /\ TakenBranch(attempts[a]) = "heic" =>
                        entry.fileName # attempts[a].file.name
                  /\ entry.previewUrl # Null
                  /\ entry.previewUrl[1].mime = processedFile.type
                  /\ entry.previewUrl[1].data = processedFile.data]_vars

====
